---- MODULE Spec2Model ----
(***************************************************************************)
(* Model of src/main.rs: the Oid <-> inode table (Bimap) and the four     *)
(* FUSE handlers of GitFilesystem (lookup, getattr, read, readdir).       *)
(*                                                                         *)
(* The object store (git2::Repository) is an input: a function from Oid   *)
(* to object.  Entry names are valid UTF-8 strings; a request name is a   *)
(* string or the one name that is not UTF-8 (NonUtf8Name).  Inode,        *)
(* offset and size arguments are small naturals, so the u64/usize         *)
(* arithmetic of the handlers never wraps, except `k as usize - 1` in     *)
(* get_forward for k = 0, which is modelled as the panic it produces      *)
(* (overflow check in a debug build, index out of bounds in a release     *)
(* build).  A panic! / failed unwrap / failed index ends the process:     *)
(* the handler makes no reply call and no later request is served.        *)
(***************************************************************************)
EXTENDS Integers, Sequences, FiniteSets, TLC

VARIABLES repo, nodes, req, reply, panicked

vars == <<repo, nodes, req, reply, panicked>>

-----------------------------------------------------------------------------
(* Bounds of the model *)

\* largest number of entries of the root tree
MaxChildren == 3
\* inode arguments of requests range over 0..MaxInode (and UnknownInode)
MaxInode == 5
\* read offsets range over 0..MaxOffset
MaxOffset == 3
\* read sizes range over 0..MaxSize
MaxSize == 2
\* readdir offsets (cursors) range over 0..MaxCursor
MaxCursor == 4

\* an inode number far above anything the table allocates
UnknownInode == 9999

-----------------------------------------------------------------------------
(* The object store: git2 Oids, trees, blobs *)

RootOid == "oid_root"
BlobHiOid == "oid_hi"
SubTreeOid == "oid_sub"
EmptyTreeOid == "oid_empty"
SubmoduleOid == "oid_submodule"

TreeObj(entries) == [kind |-> "Tree", entries |-> entries, content |-> <<>>]
BlobObj(content) == [kind |-> "Blob", entries |-> <<>>, content |-> content]
Entry(name, id, kind) == [name |-> name, id |-> id, kind |-> kind]

\* the bytes of "hi"
HiContent == <<104, 105>>

\* a subdirectory sharing the blob with the root, and holding the empty tree
SubTreeEntries ==
    << Entry("a.txt", BlobHiOid, "Blob"), Entry("d", EmptyTreeOid, "Tree") >>

\* names of root entries, in the order git stores tree entries
RootNames == << "a.txt", "b", "c", "e" >>

\* what a root entry can point to; a submodule is an entry of kind Commit
\* whose object is not in this repository
Children ==
    { [id |-> BlobHiOid, kind |-> "Blob"],
      [id |-> SubTreeOid, kind |-> "Tree"],
      [id |-> EmptyTreeOid, kind |-> "Tree"],
      [id |-> SubmoduleOid, kind |-> "Commit"] }

RECURSIVE PickEntries(_, _)
\* the entry lists whose names are a subsequence of RootNames from position i on
PickEntries(i, room) ==
    IF i > Len(RootNames) THEN { <<>> }
    ELSE PickEntries(i + 1, room)
         \cup (IF room = 0 THEN {}
               ELSE { <<Entry(RootNames[i], c.id, c.kind)>> \o rest :
                        c \in Children, rest \in PickEntries(i + 1, room - 1) })

RootEntryLists == PickEntries(1, MaxChildren)

\* content addressing: a tree without entries is the empty tree
RootOf(entries) == IF entries = <<>> THEN EmptyTreeOid ELSE RootOid

Repository(entries) ==
    [o \in {RootOf(entries), BlobHiOid, SubTreeOid, EmptyTreeOid} |->
        CASE o = RootOf(entries) -> TreeObj(entries)
          [] o = BlobHiOid -> BlobObj(HiContent)
          [] o = SubTreeOid -> TreeObj(SubTreeEntries)
          [] OTHER -> TreeObj(<<>>)]

Ok(v) == [tag |-> "Ok", v |-> v]
Err(e) == [tag |-> "Err", e |-> e]
Some(v) == [tag |-> "Some", v |-> v]
None == [tag |-> "None"]
Panic == [tag |-> "panic"]

\* Repository::find_tree
find_tree(r, oid) ==
    IF oid \in DOMAIN r /\ r[oid].kind = "Tree" THEN Ok(r[oid])
    ELSE Err("not a tree")

\* Repository::find_object(oid, None)
find_object(r, oid) ==
    IF oid \in DOMAIN r THEN Ok(r[oid]) ELSE Err("object not found")

-----------------------------------------------------------------------------
(* Bimap *)

Bimap_new == [forward |-> <<>>, reverse |-> <<>>]

\* HashMap::insert
Insert(m, key, val) ==
    [x \in (DOMAIN m) \cup {key} |-> IF x = key THEN val ELSE m[x]]

\* Vec is 0-indexed: forward[k - 1] of the code is the k-th element
get_forward(n, k) ==
    IF k <= Len(n.forward)
    THEN IF k = 0 THEN Panic ELSE Some(n.forward[k])
    ELSE None

\* get_reverse that never finds the key
get_reverse_miss(n, v) == None

get_reverse(n, v) ==
    IF v \in DOMAIN n.reverse THEN Some(n.reverse[v]) ELSE None

\* get_reverse_or_alloc without the get_reverse test: every call allocates
get_reverse_or_alloc_always(n, v) ==
    LET fwd == Append(n.forward, v)
        k == Len(fwd)
    IN [nodes |-> [forward |-> fwd, reverse |-> Insert(n.reverse, v, k)],
        k |-> k]

\* get_reverse_or_alloc without `self.reverse.insert(*v, k)`
get_reverse_or_alloc_no_insert(n, v) ==
    LET found == get_reverse(n, v) IN
    IF found.tag = "Some" THEN [nodes |-> n, k |-> found.v]
    ELSE LET fwd == Append(n.forward, v)
         IN [nodes |-> [forward |-> fwd, reverse |-> n.reverse],
             k |-> Len(fwd)]

\* get_reverse_or_alloc storing into the last slot instead of pushing
get_reverse_or_alloc_overwrite(n, v) ==
    LET found == get_reverse(n, v) IN
    IF found.tag = "Some" THEN [nodes |-> n, k |-> found.v]
    ELSE LET k == Len(n.forward)
             fwd == [n.forward EXCEPT ![k] = v]
         IN [nodes |-> [forward |-> fwd, reverse |-> Insert(n.reverse, v, k)],
             k |-> k]

\* get_reverse_or_alloc taking `k = self.forward.len()` before the push
get_reverse_or_alloc_len_before(n, v) ==
    LET found == get_reverse(n, v) IN
    IF found.tag = "Some" THEN [nodes |-> n, k |-> found.v]
    ELSE LET k == Len(n.forward)
             fwd == Append(n.forward, v)
         IN [nodes |-> [forward |-> fwd, reverse |-> Insert(n.reverse, v, k)],
             k |-> k]

get_reverse_or_alloc(n, v) ==
    LET found == get_reverse(n, v) IN
    IF found.tag = "Some" THEN [nodes |-> n, k |-> found.v]
    ELSE LET fwd == Append(n.forward, v)
             k == Len(fwd)
         IN [nodes |-> [forward |-> fwd, reverse |-> Insert(n.reverse, v, k)],
             k |-> k]

-----------------------------------------------------------------------------
(* Helpers of the handlers *)

get_tree_entry_info(n, entry) ==
    IF entry.kind \notin {"Tree", "Blob"}
    THEN [tag |-> "panic", nodes |-> n]
    ELSE LET a == get_reverse_or_alloc(n, entry.id) IN
         [tag |-> "ok", nodes |-> a.nodes, ino |-> a.k,
          kind |-> IF entry.kind = "Tree" THEN "Directory" ELSE "RegularFile",
          name |-> entry.name]

get_tree(r, n, ino) ==
    LET oid == get_forward(n, ino) IN
    CASE oid.tag = "panic" -> Panic
      [] oid.tag = "None" -> Err("inode not found")
      [] OTHER -> find_tree(r, oid.v)

get_obj(r, n, ino) ==
    LET oid == get_forward(n, ino) IN
    CASE oid.tag = "panic" -> Panic
      [] oid.tag = "None" -> Err("inode not found")
      [] OTHER -> find_object(r, oid.v)

\* GitFilesystem::new
new(root) ==
    LET fwd == Append(Bimap_new.forward, root) IN
    [forward |-> fwd, reverse |-> Insert(Bimap_new.reverse, root, 1)]

\* FileAttr with the block count rounded down: `size as u64 / 4096`
FileAttr_blocks_floor(ino, kind, size) ==
    [ino |-> ino, size |-> size, blocks |-> size \div 4096,
     kind |-> kind, perm |-> 493, nlink |-> 2, uid |-> 99, gid |-> 99,
     rdev |-> 0, flags |-> 0]

FileAttr(ino, kind, size) ==
    [ino |-> ino, size |-> size, blocks |-> (size + 4095) \div 4096,
     kind |-> kind, perm |-> 493, nlink |-> 2, uid |-> 99, gid |-> 99,
     rdev |-> 0, flags |-> 0]

\* (kind, size) of a loaded object, or a panic for any other object type
kind_and_size(obj) ==
    CASE obj.kind = "Blob" ->
            [tag |-> "ok", kind |-> "RegularFile", size |-> Len(obj.content)]
      [] obj.kind = "Tree" -> [tag |-> "ok", kind |-> "Directory", size |-> 0]
      [] OTHER -> Panic

-----------------------------------------------------------------------------
(* Replies and handler outcomes *)

NoReply == [tag |-> "none"]
ReplyEntryOf(attr) == [tag |-> "entry", attr |-> attr]
ReplyAttrOf(attr) == [tag |-> "attr", attr |-> attr]
ReplyDataOf(bytes) == [tag |-> "data", data |-> bytes]
ReplyDirOk(entries) == [tag |-> "ok", entries |-> entries]
ReplyError(errno) == [tag |-> "error", errno |-> errno]

Replied(n, r) == [nodes |-> n, reply |-> r, panicked |-> FALSE]
Panicked(n) == [nodes |-> n, reply |-> NoReply, panicked |-> TRUE]

-----------------------------------------------------------------------------
(* The handlers of impl Filesystem for GitFilesystem *)

\* a request name whose bytes are not UTF-8: Path::to_str gives None
NonUtf8Name == "<non-utf8>"

to_str(name) == IF name = NonUtf8Name THEN None ELSE Some(name)

RECURSIVE lookup_scan_ino_index(_, _, _, _, _)
\* lookup_scan replying with the position of the entry (the cursor readdir
\* gives it) as its inode
lookup_scan_ino_index(r, n, tree, name, i) ==
    IF i >= Len(tree.entries) THEN Replied(n, ReplyError("ENOENT"))
    ELSE LET entry == tree.entries[i + 1] IN
         IF to_str(name).tag = "None" THEN Panicked(n)
         ELSE IF entry.name = to_str(name).v
         THEN LET info == get_tree_entry_info(n, entry) IN
              IF info.tag = "panic" THEN Panicked(info.nodes)
              ELSE LET obj == find_object(r, entry.id) IN
                   IF obj.tag = "Err" THEN Panicked(info.nodes)
                   ELSE LET ks == kind_and_size(obj.v) IN
                        IF ks.tag = "panic" THEN Panicked(info.nodes)
                        ELSE Replied(info.nodes,
                                ReplyEntryOf(FileAttr(i + 2, ks.kind, ks.size)))
         ELSE lookup_scan_ino_index(r, n, tree, name, i + 1)

RECURSIVE lookup_scan_intern_all(_, _, _, _, _)
\* lookup_scan calling get_tree_entry_info on every entry it scans, before
\* it compares the name
lookup_scan_intern_all(r, n, tree, name, i) ==
    IF i >= Len(tree.entries) THEN Replied(n, ReplyError("ENOENT"))
    ELSE LET entry == tree.entries[i + 1]
             info == get_tree_entry_info(n, entry)
         IN
         IF info.tag = "panic" THEN Panicked(info.nodes)
         ELSE IF to_str(name).tag = "None" THEN Panicked(info.nodes)
         ELSE IF entry.name = to_str(name).v
         THEN LET obj == find_object(r, entry.id) IN
              IF obj.tag = "Err" THEN Panicked(info.nodes)
              ELSE LET ks == kind_and_size(obj.v) IN
                   IF ks.tag = "panic" THEN Panicked(info.nodes)
                   ELSE Replied(info.nodes,
                           ReplyEntryOf(FileAttr(info.ino, ks.kind, ks.size)))
         ELSE lookup_scan_intern_all(r, info.nodes, tree, name, i + 1)

RECURSIVE lookup_scan(_, _, _, _, _)
\* the body of `for i in 0..tree.len()` from index i on
lookup_scan(r, n, tree, name, i) ==
    IF i >= Len(tree.entries) THEN Replied(n, ReplyError("ENOENT"))
    ELSE LET entry == tree.entries[i + 1] IN
         IF to_str(name).tag = "None" THEN Panicked(n)
         ELSE IF entry.name = to_str(name).v
         THEN LET info == get_tree_entry_info(n, entry) IN
              IF info.tag = "panic" THEN Panicked(info.nodes)
              ELSE LET obj == find_object(r, entry.id) IN
                   IF obj.tag = "Err" THEN Panicked(info.nodes)
                   ELSE LET ks == kind_and_size(obj.v) IN
                        IF ks.tag = "panic" THEN Panicked(info.nodes)
                        ELSE Replied(info.nodes,
                                ReplyEntryOf(FileAttr(info.ino, ks.kind, ks.size)))
         ELSE lookup_scan(r, n, tree, name, i + 1)

lookup(r, n, parent, name) ==
    LET tree == get_tree(r, n, parent) IN
    CASE tree.tag = "panic" -> Panicked(n)
      [] tree.tag = "Err" -> Replied(n, ReplyError("ENOENT"))
      [] OTHER -> lookup_scan(r, n, tree.v, name, 0)

\* getattr reporting size 0 for every object
getattr_size_zero(r, n, ino) ==
    LET obj == get_obj(r, n, ino) IN
    IF obj.tag # "Ok" THEN Panicked(n)
    ELSE LET ks == kind_and_size(obj.v) IN
         IF ks.tag = "panic" THEN Panicked(n)
         ELSE Replied(n, ReplyAttrOf(FileAttr(ino, ks.kind, 0)))

getattr(r, n, ino) ==
    LET obj == get_obj(r, n, ino) IN
    IF obj.tag # "Ok" THEN Panicked(n)
    ELSE LET ks == kind_and_size(obj.v) IN
         IF ks.tag = "panic" THEN Panicked(n)
         ELSE Replied(n, ReplyAttrOf(FileAttr(ino, ks.kind, ks.size)))

\* &content[start .. end]: start <= end <= len, or the index panics
slice(content, start, end) ==
    IF start <= end /\ end <= Len(content)
    THEN Some(SubSeq(content, start + 1, end))
    ELSE Panic

\* read pushing the Oid it loaded onto the forward sequence
read_interning(r, n, ino, offset, size) ==
    LET obj == get_obj(r, n, ino) IN
    IF obj.tag # "Ok" THEN Panicked(n)
    ELSE IF obj.v.kind = "Blob"
         THEN LET bytes == slice(obj.v.content, offset, offset + size) IN
              IF bytes.tag = "panic" THEN Panicked(n)
              ELSE Replied([n EXCEPT !.forward = Append(n.forward, n.forward[ino])],
                           ReplyDataOf(bytes.v))
         ELSE Panicked(n)

read(r, n, ino, offset, size) ==
    LET obj == get_obj(r, n, ino) IN
    IF obj.tag # "Ok" THEN Panicked(n)
    ELSE IF obj.v.kind = "Blob"
         THEN LET bytes == slice(obj.v.content, offset, offset + size) IN
              IF bytes.tag = "panic" THEN Panicked(n)
              ELSE Replied(n, ReplyDataOf(bytes.v))
         ELSE Panicked(n)

DirEntry(ino, offset, kind, name) ==
    [ino |-> ino, offset |-> offset, kind |-> kind, name |-> name]

RECURSIVE readdir_loop_cursor_from_one(_, _, _, _)
\* readdir_loop numbering the children from cursor 1: `i as u64 + 1`
readdir_loop_cursor_from_one(n, tree, i, added) ==
    IF i >= Len(tree.entries) THEN Replied(n, ReplyDirOk(added))
    ELSE LET info == get_tree_entry_info(n, tree.entries[i + 1]) IN
         IF info.tag = "panic" THEN Panicked(info.nodes)
         ELSE readdir_loop_cursor_from_one(info.nodes, tree, i + 1,
                  Append(added, DirEntry(info.ino, i + 1, info.kind, info.name)))

RECURSIVE readdir_loop(_, _, _, _)
\* the body of `for i in 0..tree.len()` from index i on; added is the
\* sequence of reply.add calls made so far
readdir_loop(n, tree, i, added) ==
    IF i >= Len(tree.entries) THEN Replied(n, ReplyDirOk(added))
    ELSE LET info == get_tree_entry_info(n, tree.entries[i + 1]) IN
         IF info.tag = "panic" THEN Panicked(info.nodes)
         ELSE readdir_loop(info.nodes, tree, i + 1,
                  Append(added, DirEntry(info.ino, i + 2, info.kind, info.name)))

\* readdir binding "." and ".." to the listed inode instead of inode 1
readdir_dot_self(r, n, ino, offset) ==
    LET tree == get_tree(r, n, ino) IN
    CASE tree.tag = "panic" -> Panicked(n)
      [] tree.tag = "Err" -> Replied(n, ReplyError("ENOENT"))
      [] OTHER ->
           IF offset # 0 /\ offset # Len(tree.v.entries) + 1 THEN Panicked(n)
           ELSE IF offset = 0
                THEN readdir_loop(n, tree.v, 0,
                        << DirEntry(ino, 0, "Directory", "."),
                           DirEntry(ino, 1, "Directory", "..") >>)
                ELSE Replied(n, ReplyDirOk(<<>>))

\* readdir ending the listing at `tree.len() + 2`
readdir_end_plus_two(r, n, ino, offset) ==
    LET tree == get_tree(r, n, ino) IN
    CASE tree.tag = "panic" -> Panicked(n)
      [] tree.tag = "Err" -> Replied(n, ReplyError("ENOENT"))
      [] OTHER ->
           IF offset # 0 /\ offset # Len(tree.v.entries) + 2 THEN Panicked(n)
           ELSE IF offset = 0
                THEN readdir_loop(n, tree.v, 0,
                        << DirEntry(1, 0, "Directory", "."),
                           DirEntry(1, 1, "Directory", "..") >>)
                ELSE Replied(n, ReplyDirOk(<<>>))

readdir(r, n, ino, offset) ==
    LET tree == get_tree(r, n, ino) IN
    CASE tree.tag = "panic" -> Panicked(n)
      [] tree.tag = "Err" -> Replied(n, ReplyError("ENOENT"))
      [] OTHER ->
           IF offset # 0 /\ offset # Len(tree.v.entries) + 1 THEN Panicked(n)
           ELSE IF offset = 0
                THEN readdir_loop(n, tree.v, 0,
                        << DirEntry(1, 0, "Directory", "."),
                           DirEntry(1, 1, "Directory", "..") >>)
                ELSE Replied(n, ReplyDirOk(<<>>))

-----------------------------------------------------------------------------
(* The state machine: the session loop hands one request at a time to its
   handler; a handler runs to its reply (or to its panic) before the next
   request is taken. *)

InodeArgs == (0 .. MaxInode) \cup {UnknownInode}
NameArgs == {"a.txt", "b", "c", "d", "e", "missing", NonUtf8Name}
OffsetArgs == 0 .. MaxOffset
SizeArgs == 0 .. MaxSize
CursorArgs == 0 .. MaxCursor

NoRequest == [op |-> "none", ino |-> 0, name |-> "", offset |-> 0, size |-> 0]
Request(op, ino, name, offset, size) ==
    [op |-> op, ino |-> ino, name |-> name, offset |-> offset, size |-> size]

Init ==
    \E entries \in RootEntryLists :
        /\ repo = Repository(entries)
        /\ nodes = new(RootOf(entries))
        /\ req = NoRequest
        /\ reply = NoReply
        /\ panicked = FALSE

Idle == req.op = "none" /\ ~panicked

Serve(request, out) ==
    /\ req' = request
    /\ nodes' = out.nodes
    /\ reply' = out.reply
    /\ panicked' = out.panicked
    /\ UNCHANGED repo

Lookup ==
    /\ Idle
    /\ \E parent \in InodeArgs, name \in NameArgs :
          Serve(Request("lookup", parent, name, 0, 0),
                lookup(repo, nodes, parent, name))

Getattr ==
    /\ Idle
    /\ \E ino \in InodeArgs :
          Serve(Request("getattr", ino, "", 0, 0), getattr(repo, nodes, ino))

Read ==
    /\ Idle
    /\ \E ino \in InodeArgs, offset \in OffsetArgs, size \in SizeArgs :
          Serve(Request("read", ino, "", offset, size),
                read(repo, nodes, ino, offset, size))

Readdir ==
    /\ Idle
    /\ \E ino \in InodeArgs, offset \in CursorArgs :
          Serve(Request("readdir", ino, "", offset, 0),
                readdir(repo, nodes, ino, offset))

\* the session loop takes the next request once the handler has returned
NextRequest ==
    /\ req.op # "none"
    /\ ~panicked
    /\ req' = NoRequest
    /\ reply' = NoReply
    /\ UNCHANGED <<repo, nodes, panicked>>

Next == Lookup \/ Getattr \/ Read \/ Readdir \/ NextRequest

Spec == Init /\ [][Next]_vars

-----------------------------------------------------------------------------
(* Properties of the identity table *)

AllOids == {RootOid, BlobHiOid, SubTreeOid, EmptyTreeOid, SubmoduleOid}

Allocated(n) == 1 .. Len(n.forward)

\* C1: in every reachable state the identity table is a bijection: for every
\* allocated inode i (the root inode 1 included) reverse[forward[i-1]] = i,
\* every Oid of the reverse table maps to an inode whose forward entry is
\* that Oid, and get_forward(i) followed by get_reverse_or_alloc on the
\* result returns i again and leaves the table as it is.
C1_Bijection ==
    /\ \A i \in Allocated(nodes) :
          /\ nodes.forward[i] \in DOMAIN nodes.reverse
          /\ nodes.reverse[nodes.forward[i]] = i
          /\ LET oid == get_forward(nodes, i) IN
                /\ oid.tag = "Some"
                /\ get_reverse_or_alloc(nodes, oid.v).k = i
                /\ get_reverse_or_alloc(nodes, oid.v).nodes = nodes
    /\ \A o \in DOMAIN nodes.reverse :
          /\ nodes.reverse[o] \in Allocated(nodes)
          /\ nodes.forward[nodes.reverse[o]] = o

\* a table of four bindings built by lookup and readdir requests
C1_Witness ==
    /\ Len(nodes.forward) = 4
    /\ req.op \in {"lookup", "readdir"}
    /\ reply.tag \in {"entry", "ok"}

\* C2: get_reverse_or_alloc is idempotent: on every reachable table and for
\* every Oid, a second call returns the inode of the first and leaves the
\* forward sequence and the reverse table as the first call left them; a
\* call on an Oid already in the table changes neither.
C2_Idempotent ==
    \A o \in AllOids :
        LET first == get_reverse_or_alloc(nodes, o)
            second == get_reverse_or_alloc(first.nodes, o)
        IN /\ second.k = first.k
           /\ second.nodes.forward = first.nodes.forward
           /\ second.nodes.reverse = first.nodes.reverse
           /\ (o \in DOMAIN nodes.reverse =>
                  /\ first.nodes.forward = nodes.forward
                  /\ first.nodes.reverse = nodes.reverse)

\* a table grown by a request, with an Oid seen and an Oid not yet seen
C2_Witness ==
    /\ Len(nodes.forward) >= 2
    /\ req.op \in {"lookup", "readdir"}
    /\ \E o \in AllOids : o \notin DOMAIN nodes.reverse
    /\ BlobHiOid \in DOMAIN nodes.reverse

\* the root tree id GitFilesystem::new was given
RootId == IF RootOid \in DOMAIN repo THEN RootOid ELSE EmptyTreeOid

\* C3: bindings are permanent: inode 1 resolves to the root tree id in every
\* state, and an inode bound to an Oid resolves to that Oid after every
\* step, whatever request is served; nothing is removed, overwritten or
\* renumbered.
C3_BindingsPermanent ==
    /\ [](get_forward(nodes, 1) = Some(RootId))
    /\ [][\A i \in Allocated(nodes) :
             get_forward(nodes', i) = get_forward(nodes, i)]_vars

\* a request that allocated served on a table that already held a non-root
\* binding
C3_Witness ==
    /\ Len(nodes.forward) >= 3
    /\ req.op = "lookup"
    /\ reply.tag = "entry"
    /\ reply.attr.ino = Len(nodes.forward)

RECURSIVE FirstSeen(_, _)
\* the Oids of ids that are not in `seen`, each once, in order of first
\* occurrence
FirstSeen(ids, seen) ==
    IF ids = <<>> THEN <<>>
    ELSE IF Head(ids) \in seen THEN FirstSeen(Tail(ids), seen)
         ELSE <<Head(ids)>> \o FirstSeen(Tail(ids), seen \cup {Head(ids)})

EntryIds(entries) == [i \in 1 .. Len(entries) |-> entries[i].id]

\* the entries of the directory bound to inode ino (<<>> when there is none)
EntriesAt(n, ino) ==
    IF ino \in Allocated(n) /\ n.forward[ino] \in DOMAIN repo
    THEN repo[n.forward[ino]].entries
    ELSE <<>>

IsDirectoryAt(n, ino) ==
    /\ ino \in Allocated(n)
    /\ n.forward[ino] \in DOMAIN repo
    /\ repo[n.forward[ino]].kind = "Tree"

\* the entries of the directory bound to ino that are named name
Matching(n, ino, name) ==
    SelectSeq(EntriesAt(n, ino), LAMBDA e : e.name = name)

\* C4: inodes are allocated densely in first-seen order: inode 1 is the
\* root, the reverse table's inodes are exactly 1..N with no inode given to
\* two Oids, every step keeps the bindings it found and appends the Oids it
\* interns for the first time in the order it met them (a listing: its
\* children in listing order; a lookup: the matched entry), so the k-th
\* distinct non-root Oid has inode k+1.
C4_DenseFirstSeen ==
    /\ [](/\ nodes.forward[1] = RootId
          /\ {nodes.reverse[o] : o \in DOMAIN nodes.reverse} = Allocated(nodes)
          /\ Cardinality(DOMAIN nodes.reverse) = Len(nodes.forward)
          /\ \A o \in DOMAIN nodes.reverse : nodes.forward[nodes.reverse[o]] = o)
    /\ [][/\ Len(nodes'.forward) >= Len(nodes.forward)
          /\ SubSeq(nodes'.forward, 1, Len(nodes.forward)) = nodes.forward
          /\ (req'.op = "readdir" /\ reply'.tag = "ok" /\ req'.offset = 0 =>
                nodes'.forward = nodes.forward \o
                    FirstSeen(EntryIds(EntriesAt(nodes, req'.ino)),
                              DOMAIN nodes.reverse))
          /\ (req'.op = "lookup" /\ reply'.tag = "entry" =>
                /\ nodes'.forward = nodes.forward \o
                      FirstSeen(<<Matching(nodes, req'.ino, req'.name)[1].id>>,
                                DOMAIN nodes.reverse)
                /\ nodes'.forward[reply'.attr.ino] =
                      Matching(nodes, req'.ino, req'.name)[1].id)
         ]_vars

\* a listing that interned two new Oids at once, after an earlier allocation
C4_Witness ==
    /\ req.op = "readdir"
    /\ reply.tag = "ok"
    /\ Len(reply.entries) = 4
    /\ reply.entries[3].ino = 3
    /\ reply.entries[4].ino = 4

-----------------------------------------------------------------------------
(* Properties of the handlers *)

\* C5: no request aborts the process: whatever the arguments of the lookup,
\* getattr, read and readdir requests served so far, the engine has not
\* panicked and goes on serving requests.
C5_NeverAborts == panicked = FALSE

IsFileAt(n, ino) ==
    /\ ino \in Allocated(n)
    /\ n.forward[ino] \in DOMAIN repo
    /\ repo[n.forward[ino]].kind = "Blob"

ContentAt(n, ino) == repo[n.forward[ino]].content

Min(a, b) == IF a <= b THEN a ELSE b
Max(a, b) == IF a >= b THEN a ELSE b

\* the bytes [offset, offset+size) of content, cut at the end of content
Clamped(content, offset, size) ==
    [i \in 1 .. Max(0, Min(Len(content) - offset, size)) |-> content[offset + i]]

\* C6: read(inode, offset, length) on a file of content length L replies
\* with the bytes [offset, offset+length) clamped to the content: nothing
\* when offset >= L, the L - offset trailing bytes when
\* offset < L < offset+length; it never aborts on a range past the end.
C6_ReadClamped ==
    (req.op = "read" /\ IsFileAt(nodes, req.ino)) =>
        /\ ~panicked
        /\ reply.tag = "data"
        /\ reply.data = Clamped(ContentAt(nodes, req.ino), req.offset, req.size)

\* C7: getattr of an inode that was never allocated replies with an I/O
\* error and does not abort.
C7_GetattrUnknownInode ==
    (req.op = "getattr" /\ req.ino \notin Allocated(nodes)) =>
        /\ ~panicked
        /\ reply.tag = "error"
        /\ reply.errno = "EIO"

Supported(entries) ==
    \A i \in 1 .. Len(entries) : entries[i].kind \in {"Tree", "Blob"}

FileTypeOf(kind) == IF kind = "Tree" THEN "Directory" ELSE "RegularFile"

\* the first child with the Oid of the j-th child
FirstWithId(entries, j) ==
    CHOOSE f \in 1 .. j :
        /\ entries[f].id = entries[j].id
        /\ \A m \in 1 .. (f - 1) : entries[m].id # entries[j].id

\* the inode the j-th child gets when the children are interned in order on
\* table n: its inode in n, or the next free inode counted over the new
\* Oids among the children up to the first one with its Oid
InternedIno(n, entries, j) ==
    IF entries[j].id \in DOMAIN n.reverse
    THEN n.reverse[entries[j].id]
    ELSE Len(n.forward)
         + Cardinality({entries[m].id : m \in 1 .. FirstWithId(entries, j)}
                       \ DOMAIN n.reverse)

ExpectedListing(n, entries) ==
    << DirEntry(1, 0, "Directory", "."), DirEntry(1, 1, "Directory", "..") >>
    \o [j \in 1 .. Len(entries) |->
           DirEntry(InternedIno(n, entries, j), j + 1,
                    FileTypeOf(entries[j].kind), entries[j].name)]

OneFileRoot == repo[RootId].entries = << Entry("a.txt", BlobHiOid, "Blob") >>

OneFileListing ==
    << DirEntry(1, 0, "Directory", "."), DirEntry(1, 1, "Directory", ".."),
       DirEntry(2, 2, "RegularFile", "a.txt") >>

\* readdir(1, cursor) on the current table yields no entries and replies ok
EndsListing(ino, cursor) ==
    LET out == readdir(repo, nodes, ino, cursor) IN
    /\ ~out.panicked
    /\ out.reply.tag = "ok"
    /\ out.reply.entries = <<>>
    /\ out.nodes = nodes

\* C9 as claimed: with a root holding one file "a.txt", readdir(1, 0) yields
\* [(1,0,dir,"."), (1,1,dir,".."), (2,2,file,"a.txt")] and the follow-up
\* readdir(1, 3) yields no entries and replies ok.
C9_ListingScenarioCursor3 ==
    OneFileRoot =>
        /\ (req.op = "readdir" /\ req.ino = 1 /\ req.offset = 0 =>
              /\ ~panicked
              /\ reply.tag = "ok"
              /\ reply.entries = OneFileListing
              /\ EndsListing(1, 3))
        /\ (req.op = "readdir" /\ req.ino = 1 /\ req.offset = 3 =>
              /\ ~panicked
              /\ reply.tag = "ok"
              /\ reply.entries = <<>>)

\* C9 amended: with a root holding one file "a.txt", readdir(1, 0) yields
\* [(1,0,dir,"."), (1,1,dir,".."), (2,2,file,"a.txt")] and the follow-up
\* readdir(1, 2) yields no entries and replies ok: the terminating cursor is
\* children + 1, the next-cursor of the last entry emitted.
C9_ListingScenario ==
    OneFileRoot =>
        /\ (req.op = "readdir" /\ req.ino = 1 /\ req.offset = 0 =>
              /\ ~panicked
              /\ reply.tag = "ok"
              /\ reply.entries = OneFileListing
              /\ EndsListing(1, reply.entries[Len(reply.entries)].offset)
              /\ EndsListing(1, 2))
        /\ (req.op = "readdir" /\ req.ino = 1 /\ req.offset = 2 =>
              /\ ~panicked
              /\ reply.tag = "ok"
              /\ reply.entries = <<>>)

\* the follow-up call of the scenario has been served
C9_Witness ==
    /\ OneFileRoot
    /\ req.op = "readdir"
    /\ req.ino = 1
    /\ req.offset = 2
    /\ reply.tag = "ok"
    /\ nodes.forward = <<RootOid, BlobHiOid>>

\* C10: the end-of-listing cursor of a directory with count children is
\* count+1: readdir with that cursor yields no entries and replies ok; and
\* it is the next-cursor of the last entry of the listing readdir(inode, 0)
\* replied with (".." when count = 0), so calling readdir again with the
\* next-cursor of the last entry received ends the listing in the second
\* call.
C10_EndCursor ==
    /\ (/\ req.op = "readdir"
        /\ IsDirectoryAt(nodes, req.ino)
        /\ req.offset = Len(EntriesAt(nodes, req.ino)) + 1)
       => /\ ~panicked
          /\ reply.tag = "ok"
          /\ reply.entries = <<>>
    /\ (req.op = "readdir" /\ req.offset = 0 /\ reply.tag = "ok")
       => /\ reply.entries[Len(reply.entries)].offset =
                Len(EntriesAt(nodes, req.ino)) + 1
          /\ EndsListing(req.ino, reply.entries[Len(reply.entries)].offset)

\* the second call of a listing of two children has been served
C10_Witness ==
    /\ req.op = "readdir"
    /\ IsDirectoryAt(nodes, req.ino)
    /\ Len(EntriesAt(nodes, req.ino)) = 2
    /\ req.offset = 3
    /\ reply.tag = "ok"
    /\ reply.entries = <<>>

-----------------------------------------------------------------------------
(* Error replies, lookup and attribute properties *)

\* C11: readdir(inode, cursor) on a directory with a cursor other than 0 and
\* the end-of-listing cursor replies with an I/O error for that request
\* only: it emits no entries, does not abort, and later requests are served.
C11_BadCursorIsIoError ==
    (/\ req.op = "readdir"
     /\ IsDirectoryAt(nodes, req.ino)
     /\ req.offset \notin {0, Len(EntriesAt(nodes, req.ino)) + 1})
    => /\ ~panicked
       /\ reply.tag = "error"
       /\ reply.errno = "EIO"

\* ceil(size / 4096)
CeilBlocks(size) == IF size = 0 THEN 0 ELSE ((size - 1) \div 4096) + 1

\* the size of the object with Oid id: 0 for a tree, the byte length of a blob
SizeOfOid(id) == IF repo[id].kind = "Blob" THEN Len(repo[id].content) ELSE 0

\* the inode get_reverse_or_alloc gives Oid id on table n
InoFor(n, id) ==
    IF id \in DOMAIN n.reverse THEN n.reverse[id] ELSE Len(n.forward) + 1

C13_LookupMissingName ==
    (/\ req.op = "lookup"
     /\ IsDirectoryAt(nodes, req.ino)
     /\ Matching(nodes, req.ino, req.name) = <<>>)
    => /\ ~panicked
       /\ reply.tag = "error"
       /\ reply.errno = "ENOENT"

\* C14: lookup(parent, name) replies ENOENT, without aborting, for every
\* parent inode that does not resolve to a directory: an inode never
\* allocated (0 and the values above the table size included) and an inode
\* bound to a file.
C14_LookupBadParent ==
    (req.op = "lookup" /\ ~IsDirectoryAt(nodes, req.ino))
    => /\ ~panicked
       /\ reply.tag = "error"
       /\ reply.errno = "ENOENT"

\* C15: read(inode, offset, length) on an inode bound to a directory replies
\* with an I/O error for that request and does not abort.
C15_ReadDirectory ==
    (req.op = "read" /\ IsDirectoryAt(nodes, req.ino))
    => /\ ~panicked
       /\ reply.tag = "error"
       /\ reply.errno = "EIO"

\* C16: when a directory entry or an object has a kind that is neither tree
\* nor blob, every operation that meets it (lookup of the matching entry,
\* readdir of the directory holding it, getattr of its inode) fails the
\* request with an I/O error reply and does not abort.
C16_UnsupportedKind ==
    /\ (/\ req.op = "lookup"
        /\ IsDirectoryAt(nodes, req.ino)
        /\ Matching(nodes, req.ino, req.name) # <<>>
        /\ Matching(nodes, req.ino, req.name)[1].kind \notin {"Tree", "Blob"})
       => (~panicked /\ reply.tag = "error" /\ reply.errno = "EIO")
    /\ (/\ req.op = "readdir"
        /\ req.offset = 0
        /\ IsDirectoryAt(nodes, req.ino)
        /\ ~Supported(EntriesAt(nodes, req.ino)))
       => (~panicked /\ reply.tag = "error" /\ reply.errno = "EIO")
    /\ (/\ req.op = "getattr"
        /\ req.ino \in Allocated(nodes)
        /\ (nodes.forward[req.ino] \notin DOMAIN repo
            \/ repo[nodes.forward[req.ino]].kind \notin {"Tree", "Blob"}))
       => (~panicked /\ reply.tag = "error" /\ reply.errno = "EIO")

\* C17: readdir(inode, cursor) replies ENOENT, emitting no entries and
\* without aborting, whenever inode does not resolve to a directory: an
\* inode never allocated (0 included) or an inode bound to a file, for
\* every cursor.
C17_ReaddirBadInode ==
    (req.op = "readdir" /\ ~IsDirectoryAt(nodes, req.ino))
    => /\ ~panicked
       /\ reply.tag = "error"
       /\ reply.errno = "ENOENT"

\* C18: get_forward returns the bound Oid for every allocated inode (the
\* root id for inode 1) and None, without a panic, for every other inode
\* value, inode 0 and the first unallocated inode (table size + 1) included.
C18_Resolve ==
    /\ get_forward(nodes, 1).tag = "Some"
    /\ get_forward(nodes, 1).v = RootId
    /\ \A k \in InodeArgs \cup {0, Len(nodes.forward) + 1} :
          IF k \in Allocated(nodes)
          THEN /\ get_forward(nodes, k).tag = "Some"
               /\ get_forward(nodes, k).v = nodes.forward[k]
          ELSE get_forward(nodes, k).tag = "None"

\* C19: attribute consistency: after a lookup that replied with an entry,
\* getattr of the inode of that reply succeeds and reports the same inode,
\* kind, size and block count; and what getattr reports for an allocated
\* inode is the same after every later step.
C19_AttrConsistency ==
    /\ []((req.op = "lookup" /\ reply.tag = "entry") =>
            LET out == getattr(repo, nodes, reply.attr.ino) IN
            /\ ~out.panicked
            /\ out.reply.tag = "attr"
            /\ out.reply.attr.ino = reply.attr.ino
            /\ out.reply.attr.kind = reply.attr.kind
            /\ out.reply.attr.size = reply.attr.size
            /\ out.reply.attr.blocks = reply.attr.blocks
            /\ out.reply.attr = reply.attr)
    /\ [][\A i \in Allocated(nodes) :
             /\ getattr(repo, nodes, i).reply.tag = "attr"
             /\ getattr(repo', nodes', i).reply = getattr(repo, nodes, i).reply
         ]_vars

\* a lookup of the file in a subdirectory, on a table other requests had
\* grown before
C19_Witness ==
    /\ req.op = "lookup"
    /\ req.ino # 1
    /\ reply.tag = "entry"
    /\ reply.attr.kind = "RegularFile"
    /\ reply.attr.size = 2
    /\ Len(nodes.forward) >= 3

\* C20: directory-order determinism: after readdir(inode, 0) has replied, a
\* second readdir(inode, 0) on the same directory replies with the same
\* entries (names, kinds, next-cursors and inodes, in the same order) and
\* allocates no inode.
C20_ReaddirDeterministic ==
    (req.op = "readdir" /\ req.offset = 0 /\ reply.tag = "ok") =>
        LET out == readdir(repo, nodes, req.ino, 0) IN
        /\ ~out.panicked
        /\ out.reply.tag = "ok"
        /\ out.reply.entries = reply.entries
        /\ out.nodes = nodes

\* a first listing of three children that interned new Oids
C20_Witness ==
    /\ req.op = "readdir"
    /\ req.offset = 0
    /\ reply.tag = "ok"
    /\ Len(reply.entries) = 5
    /\ Len(nodes.forward) >= 3

-----------------------------------------------------------------------------
(* Frame and reply properties *)

\* C21: getattr and read are pure queries on the identity table: whether
\* the request succeeds or fails, the forward sequence and the reverse
\* table are the same after it as before; only lookup and the initial
\* readdir call (offset 0) change the table.
C21_QueriesKeepTable ==
    [][/\ (req'.op \in {"getattr", "read"} =>
             /\ nodes'.forward = nodes.forward
             /\ nodes'.reverse = nodes.reverse)
       /\ (nodes' # nodes =>
             \/ req'.op = "lookup"
             \/ (req'.op = "readdir" /\ req'.offset = 0))
      ]_vars

\* a read that replied with bytes on a table of three bindings
C21_Witness ==
    /\ req.op = "read"
    /\ reply.tag = "data"
    /\ reply.data = HiContent
    /\ Len(nodes.forward) = 3

\* C22: the inode of a directory entry is the same through lookup and
\* through readdir: on every table on which requests are served, for every
\* directory d and name n, if lookup(d, n) replies and readdir(d, 0) then
\* replies, the entry n of the listing has the inode of the lookup reply;
\* if readdir(d, 0) replies, a following lookup of each listed name replies
\* with the inode listed for it; each reported inode is bound to the Oid of
\* its entry, and entries listed for two directories have the same inode
\* exactly when they have the same Oid.
C22_SameInodeBothPaths ==
    Idle =>
      \A d \in Allocated(nodes) :
        /\ \A name \in NameArgs :
              LET first == lookup(repo, nodes, d, name) IN
              (~first.panicked /\ first.reply.tag = "entry") =>
                 LET then == readdir(repo, first.nodes, d, 0) IN
                 /\ first.reply.attr.ino \in 1 .. Len(first.nodes.forward)
                 /\ first.nodes.forward[first.reply.attr.ino] =
                       Matching(nodes, d, name)[1].id
                 /\ (~then.panicked /\ then.reply.tag = "ok") =>
                       /\ \E j \in 3 .. Len(then.reply.entries) :
                             then.reply.entries[j].name = name
                       /\ \A j \in 3 .. Len(then.reply.entries) :
                             then.reply.entries[j].name = name =>
                                then.reply.entries[j].ino = first.reply.attr.ino
        /\ LET first == readdir(repo, nodes, d, 0) IN
           (~first.panicked /\ first.reply.tag = "ok") =>
              /\ \A j \in 3 .. Len(first.reply.entries) :
                    LET then == lookup(repo, first.nodes, d,
                                       first.reply.entries[j].name) IN
                    /\ ~then.panicked
                    /\ then.reply.tag = "entry"
                    /\ then.reply.attr.ino = first.reply.entries[j].ino
                    /\ first.nodes.forward[first.reply.entries[j].ino] =
                          EntriesAt(nodes, d)[j - 2].id
              /\ \A d2 \in Allocated(first.nodes) :
                    LET other == readdir(repo, first.nodes, d2, 0) IN
                    (~other.panicked /\ other.reply.tag = "ok") =>
                       \A j \in 3 .. Len(first.reply.entries),
                          k \in 3 .. Len(other.reply.entries) :
                          (first.reply.entries[j].ino = other.reply.entries[k].ino)
                          <=> (EntriesAt(nodes, d)[j - 2].id =
                                  EntriesAt(first.nodes, d2)[k - 2].id)

\* the session waits for a request on a table that holds the subdirectory
\* and the file both the root and the subdirectory list
C22_Witness ==
    /\ Idle
    /\ Len(nodes.forward) >= 3
    /\ SubTreeOid \in DOMAIN nodes.reverse
    /\ BlobHiOid \in DOMAIN nodes.reverse
    /\ \E j \in 1 .. Len(repo[RootId].entries) :
          repo[RootId].entries[j].id = BlobHiOid

\* C23: lookup changes the identity table minimally: a lookup that replies
\* ENOENT leaves the table unchanged, and a lookup that replies with an
\* entry adds at most one binding, the one of the matched entry's Oid, and
\* none for the entries before or after the match.
C23_LookupMinimalChange ==
    [][req'.op = "lookup" =>
         /\ (reply'.tag = "error" => nodes' = nodes)
         /\ (reply'.tag = "entry" =>
               LET id == Matching(nodes, req'.ino, req'.name)[1].id IN
               \/ (id \in DOMAIN nodes.reverse /\ nodes' = nodes)
               \/ /\ id \notin DOMAIN nodes.reverse
                  /\ nodes'.forward = Append(nodes.forward, id)
                  /\ DOMAIN nodes'.reverse = DOMAIN nodes.reverse \cup {id}
                  /\ \A o \in DOMAIN nodes.reverse :
                        nodes'.reverse[o] = nodes.reverse[o])
      ]_vars

\* a lookup that matched the last of three root entries and interned only
\* its Oid
C23_Witness ==
    /\ req.op = "lookup"
    /\ req.ino = 1
    /\ req.name = "e"
    /\ reply.tag = "entry"
    /\ Len(repo[RootId].entries) = 3
    /\ Len(nodes.forward) = 2

\* the reply calls the handler of the current request has made; the reply
\* methods take the reply object by value, so a path makes at most one
ReplyCalls == IF reply.tag = "none" THEN 0 ELSE 1

\* C24: every lookup, getattr, read and readdir request is answered exactly
\* once before the next request is handled: the handler makes exactly one
\* reply call on every control path, so no request is left without a reply.
C24_ExactlyOneReply ==
    req.op # "none" => (ReplyCalls = 1 /\ ~panicked)

====
